---- MODULE Spec2Model ----
(***************************************************************************)
(* A state-machine model of NewsAnalyserApp: the two Streamlit pages       *)
(* (pyfiles/pages/toolkit_nlp.py, pyfiles/pages/document_term_matrix.py)   *)
(* and the cloud downloaders (utils/csp_downloaders.py).                   *)
(*                                                                         *)
(* One step of a page is one run of its app() function: Streamlit runs     *)
(* the script from top to bottom with the widget values of that run, and   *)
(* at most one button is pressed in a run.  The module-level state (the    *)
(* toolkit dictionary, the globals of document_term_matrix.py, the files   *)
(* on disk, os.environ) lives on between runs.                             *)
(***************************************************************************)
EXTENDS Integers, Sequences, FiniteSets, TLC

VARIABLES
    page,       \* the page this session runs: "toolkit", "dtm" or "csp"
    toolkit,    \* config.toolkit, the state dictionary of the NLP Toolkit page
    dtm,        \* the module globals of document_term_matrix.py
    aws,        \* the AWSDownloader object last constructed (or NoObj)
    azure,      \* the AzureDownloader object last constructed (or NoObj)
    gcs,        \* the GoogleDownloader object last constructed (or NoObj)
    disk,       \* the files of the current working directory
    environ,    \* os.environ, the entries the downloaders set
    usedIds,    \* history: the FC ids under which a file was written
    dupId,      \* history: a file was written under an id already used
    call,       \* history: the last downloader operation and what it did
    run,        \* history: the last page run and what it did
    corpus,     \* the documents of column "a" of the table "t1"
    modes,      \* the operations of the NLP Toolkit selector this session uses
    sessions,   \* two browser sessions inside the save section of a run
    downloads   \* the files of the download directory they wrote

vars == <<page, toolkit, dtm, aws, azure, gcs, disk, environ, usedIds, dupId,
          call, run, corpus, modes,
         sessions, downloads>>

----------------------------------------------------------------------------
(* Bounds of the model.                                                    *)

MaxFC == 4
MaxDocs == 2
MaxDocLen == 2

----------------------------------------------------------------------------
(* Values.                                                                 *)

None == "None"
NoObj == [SUCCESSFUL |-> FALSE, kind |-> "none"]

\* What a file can hold: "bad" cannot be parsed as a table, "header" is a
\* table with columns and no rows, "t1" and "t2" are tables with rows.
Contents == {"bad", "header", "t1", "t2"}
\* A table a provider can deliver besides: the cells of its column "n" are
\* read as numbers or missing values, not as strings.  (An uploaded table is
\* cast with astype(str) as it is loaded, toolkit_nlp.py line 105.)
NonText == "tn"
Absent == "absent"

\* The names a file of the working directory can have.
FileNames == {"f.csv", "g.csv"}
Cwd == "cwd"

\* Words of the documents; "the" is an English stop word.
Vocab == {"w1", "w2", "the"}
StopWords == {"the"}

RECURSIVE SeqsUpTo(_, _)
SeqsUpTo(S, n) ==
    IF n = 0 THEN {<<>>}
    ELSE LET shorter == SeqsUpTo(S, n - 1)
         IN  shorter \cup {Append(s, x) : s \in {t \in shorter : Len(t) = n - 1}, x \in S}

\* A document holds at least one word.
Documents == SeqsUpTo(Vocab, MaxDocLen) \ {<<>>}
Corpora == {c \in SeqsUpTo(Documents, MaxDocs) : Len(c) >= 1}
DefaultCorpus == << <<"w1", "w2">>, <<"w2", "the">> >>

\* A pandas DataFrame: its columns in order, its number of rows and the
\* table its text comes from.
EmptyDF == [cols |-> <<>>, n |-> 0, src |-> None]
Empty(df) == Len(df.cols) = 0 \/ df.n = 0
ColSet(df) == {df.cols[i] : i \in 1..Len(df.cols)}
HasCol(df, c) == c \in ColSet(df)

TableOf(content) ==
    CASE content = "t1" -> [cols |-> <<"a", "b">>, n |-> Len(corpus), src |-> "t1"]
      [] content = "t2" -> [cols |-> <<"c">>, n |-> 1, src |-> "t2"]
      [] content = "header" -> [cols |-> <<"a", "b">>, n |-> 0, src |-> "header"]
      [] content = NonText -> [cols |-> <<"n">>, n |-> 1, src |-> NonText]
      [] OTHER -> EmptyDF

\* The documents of a column: column "a" of "t1" holds the corpus, column "b"
\* of "t1" holds stop words only, column "c" of "t2" one document, column
\* "n" of "tn" the text its cell has once cast with astype(str).
ColumnText(df, c) ==
    CASE df.src = "t1" /\ c = "a" -> corpus
      [] df.src = "t1" /\ c = "b" -> [i \in 1..df.n |-> <<"the">>]
      [] df.src = "t2" /\ c = "c" -> << <<"w1", "w1">> >>
      [] df.src = NonText /\ c = "n" -> << <<"w1">> >>
      [] OTHER -> <<>>

\* utils.helper.readFile on an uploaded file (named by what it holds) or on
\* a path of the disk d: a file that holds a table is read into a DataFrame;
\* no path, a directory, a missing or an unparsable file raises.
readFile(path, d) ==
    LET content == IF path \in Contents THEN path
                   ELSE IF path \in FileNames THEN d[path]
                   ELSE Absent
    IN  IF content \in {"header", "t1", "t2", NonText}
        THEN [raised |-> FALSE, df |-> TableOf(content)]
        ELSE [raised |-> TRUE, df |-> EmptyDF]

ErrParams == "error: Parameters are not loaded or is validated successfully"
ErrException == "error: exception text"
Err401 == "error: User Unauthorised (credentials)"
Err403 == "error: User Unauthorised (permissions)"
Err404 == "error: File does not exist"
ErrTryAgain == "error: exception text. Try again."
ErrNotLoaded == "error: Data not loaded properly"
ErrNoFiles == "error: No files are loaded"
ErrColumn == "error: column is not found or invalid"
ErrProcessing == "error: An error is made in the processing of the data"
MsgDownloaded == "success: File Downloaded"
MsgLoaded == "info: Credentials Loaded"
MsgValidated == "success: Parameters Validated and Accepted"
MsgConnected == "success: Connection Established"
Errors == {ErrParams, ErrException, Err401, Err403, Err404, ErrTryAgain,
           ErrNotLoaded, ErrNoFiles, ErrColumn}

InitEnviron == [AWS_ACCESS_KEY_ID |-> "", AWS_SECRET_ACCESS_KEY |-> "",
                GOOGLE_APPLICATION_CREDENTIALS |-> ""]
InitDisk == [f \in FileNames |-> Absent]

----------------------------------------------------------------------------
(* utils/csp_downloaders.py: AWSDownloader.                                *)

\* The values of the widgets of the AWS form in one run.  The key fields are
\* shown when the credential-file checkbox is unchecked, the uploader when
\* it is checked.
AWSForms ==
    {f \in [FROM_CREDENTIAL_FILE : BOOLEAN,
            credFile : {None, "unreadable", "nokeys", "good"},
            keyId : {"", "AK"}, secret : {"", "SK"},
            bucket : {"", "bkt"}, objKey : {"", "key"},
            fileName : {"", "f.csv"}, SUBMIT : BOOLEAN] :
        /\ f.FROM_CREDENTIAL_FILE => (f.keyId = "" /\ f.secret = "")
        /\ ~f.FROM_CREDENTIAL_FILE => f.credFile = None}

\* What the provider answers to a download: "ok", a ClientError with that
\* error code, or another exception ("other").
AwsOutcomes == {"ok", "401", "403", "404", "500", "other"}

\* AWSDownloader.__init__: the object constructed, os.environ after it, the
\* messages shown and whether an exception left the constructor.
AWSDownloader(f, env) ==
    LET obj0 == [kind |-> "aws",
                 FROM_CREDENTIAL_FILE |-> f.FROM_CREDENTIAL_FILE,
                 AWS_CREDENTIAL_FILE |-> IF f.FROM_CREDENTIAL_FILE THEN f.credFile ELSE None,
                 AWS_ACCESS_KEY_ID |-> IF f.FROM_CREDENTIAL_FILE THEN "" ELSE f.keyId,
                 AWS_SECRET_ACCESS_KEY |-> IF f.FROM_CREDENTIAL_FILE THEN "" ELSE f.secret,
                 AWS_BUCKET_NAME |-> f.bucket,
                 AWS_OBJECT_KEY |-> f.objKey,
                 AWS_FILE_NAME |-> f.fileName,
                 SUBMIT |-> f.SUBMIT,
                 SUCCESSFUL |-> FALSE]
        nothingGiven == /\ obj0.AWS_CREDENTIAL_FILE = None
                        /\ obj0.AWS_BUCKET_NAME = ""
                        /\ obj0.AWS_OBJECT_KEY = ""
                        /\ obj0.AWS_FILE_NAME = ""
    IN  IF ~f.SUBMIT
        THEN [obj |-> obj0, environ |-> env, msgs |-> {}, raised |-> FALSE]
        ELSE IF obj0.FROM_CREDENTIAL_FILE /\ nothingGiven
        THEN [obj |-> obj0, environ |-> env, msgs |-> {ErrParams}, raised |-> FALSE]
        ELSE IF ~obj0.FROM_CREDENTIAL_FILE /\ nothingGiven
        THEN [obj |-> obj0, environ |-> env, msgs |-> {ErrParams}, raised |-> FALSE]
        \* pd.read_csv(self.AWS_CREDENTIAL_FILE)
        ELSE IF obj0.AWS_CREDENTIAL_FILE \in {None, "unreadable"}
        THEN [obj |-> obj0, environ |-> env, msgs |-> {ErrException}, raised |-> FALSE]
        \* temp_df['Access key ID'] of a CSV without that column: KeyError
        ELSE IF obj0.AWS_CREDENTIAL_FILE = "nokeys"
        THEN [obj |-> NoObj, environ |-> env, msgs |-> {}, raised |-> TRUE]
        ELSE [obj |-> [obj0 EXCEPT !.AWS_ACCESS_KEY_ID = "FK",
                                   !.AWS_SECRET_ACCESS_KEY = "FS",
                                   !.SUCCESSFUL = TRUE],
              environ |-> [env EXCEPT !.AWS_ACCESS_KEY_ID = "FK",
                                      !.AWS_SECRET_ACCESS_KEY = "FS"],
              msgs |-> {MsgLoaded}, raised |-> FALSE]

\* AWSDownloader.downloadFile.  download_file writes to a temporary file and
\* renames it, so a failed download leaves the destination as it was.
downloadFile(obj, outcome, content, d) ==
    LET badCall == obj.AWS_BUCKET_NAME = "" \/ obj.AWS_OBJECT_KEY = ""
        answer == IF badCall THEN "other"
                  ELSE IF outcome = "ok" /\ obj.AWS_FILE_NAME \notin FileNames THEN "other"
                  ELSE outcome
        st0 == [obj |-> obj, disk |-> d, msgs |-> {}, raised |-> FALSE,
                failed |-> FALSE, attempted |-> FALSE, wrote |-> {}]
    IN  IF ~obj.SUCCESSFUL
        THEN [st0 EXCEPT !.msgs = {ErrParams}]
        ELSE IF answer = "ok"
        THEN [st0 EXCEPT !.disk[obj.AWS_FILE_NAME] = content, !.msgs = {MsgDownloaded},
                         !.attempted = TRUE, !.wrote = {obj.AWS_FILE_NAME}]
        \* an exception that is no ClientError leaves the method
        ELSE IF answer = "other"
        THEN [st0 EXCEPT !.raised = TRUE, !.failed = TRUE, !.attempted = TRUE]
        ELSE [st0 EXCEPT !.msgs = IF answer = "401" THEN {Err401}
                                  ELSE IF answer = "403" THEN {Err403}
                                  ELSE IF answer = "404" THEN {Err404}
                                  ELSE {},
                         !.failed = TRUE, !.attempted = TRUE]

----------------------------------------------------------------------------
(* utils/csp_downloaders.py: AzureDownloader.                              *)

\* The Azure form; connectOk is whether from_connection_string and
\* get_container_client accept the connection string.
AzureForms == [conn : {"", "conn"}, blobName : {"", "blob"}, localPath : {"", Cwd},
               SUBMIT : BOOLEAN, connectOk : BOOLEAN]

\* What the container lists: no blob, one blob, or two blobs.
BlobListings ==
    {<<>>}
    \cup {<<[name |-> "f.csv", content |-> c]>> : c \in Contents}
    \cup {<<[name |-> "f.csv", content |-> c], [name |-> "g.csv", content |-> "t2"]>> :
              c \in {"t1", "bad"}}

\* AzureDownloader.__init__.  SUCCESSFUL is set before the connection is
\* made; ClientContainer is whether the attribute was assigned.
AzureDownloader(f) ==
    LET obj0 == [kind |-> "azure",
                 AZURE_CONNECTION_STRING |-> f.conn,
                 AZURE_BLOB_NAME |-> f.blobName,
                 LOCAL_DOWNLOAD_PATH |-> f.localPath,
                 AZURE_DOWNLOAD_PATH |-> Cwd,
                 AZURE_DOWNLOAD_ABS_PATH |-> None,
                 SUBMIT |-> f.SUBMIT,
                 ClientContainer |-> FALSE,
                 SUCCESSFUL |-> FALSE]
    IN  IF ~f.SUBMIT
        THEN [obj |-> obj0, msgs |-> {}, raised |-> FALSE]
        ELSE IF f.conn = "" \/ f.blobName = "" \/ f.localPath = ""
        THEN [obj |-> obj0, msgs |-> {ErrParams}, raised |-> FALSE]
        ELSE IF f.connectOk
        THEN [obj |-> [obj0 EXCEPT !.SUCCESSFUL = TRUE, !.ClientContainer = TRUE],
              msgs |-> {MsgValidated, MsgConnected}, raised |-> FALSE]
        ELSE [obj |-> [obj0 EXCEPT !.SUCCESSFUL = TRUE],
              msgs |-> {MsgValidated, ErrException}, raised |-> FALSE]

\* AzureDownloader.saveBlob: the blob is written under LOCAL_DOWNLOAD_PATH and
\* AZURE_DOWNLOAD_PATH becomes its path.
saveBlob(st, blob) ==
    IF st.obj.SUCCESSFUL
    THEN [st EXCEPT !.obj.AZURE_DOWNLOAD_PATH = blob.name,
                    !.disk[blob.name] = blob.content,
                    !.wrote = @ \cup {blob.name}]
    ELSE [st EXCEPT !.msgs = @ \cup {ErrParams}]

\* The loop of downloadBlob over the first k blobs listed.
RECURSIVE SaveBlobs(_, _, _)
SaveBlobs(st, listing, k) ==
    IF k = 0 THEN st
    ELSE LET before == SaveBlobs(st, listing, k - 1)
             saved == saveBlob(before, listing[k])
         IN  [saved EXCEPT !.msgs = @ \cup {MsgDownloaded}]

\* AzureDownloader.downloadBlob.  failAt = 0: every call succeeds; failAt = k:
\* the k-th step of the iteration raises (listing the blobs, or downloading
\* the k-th blob), after k - 1 blobs were saved.
downloadBlobAzure(obj, listing, failAt, d) ==
    LET st0 == [obj |-> obj, disk |-> d, msgs |-> {}, raised |-> FALSE,
                failed |-> FALSE, attempted |-> FALSE, wrote |-> {}]
    IN  IF ~obj.SUCCESSFUL
        THEN [st0 EXCEPT !.msgs = {ErrParams}]
        \* self.ClientContainer was never assigned: AttributeError
        ELSE IF ~obj.ClientContainer
        THEN [st0 EXCEPT !.raised = TRUE, !.failed = TRUE, !.attempted = TRUE]
        ELSE IF failAt = 0
        THEN [SaveBlobs(st0, listing, Len(listing)) EXCEPT !.attempted = TRUE]
        ELSE [SaveBlobs(st0, listing, failAt - 1) EXCEPT
                  !.raised = TRUE, !.failed = TRUE, !.attempted = TRUE]

----------------------------------------------------------------------------
(* utils/csp_downloaders.py: GoogleDownloader.                             *)

\* The Google form; clientOk is whether storage.Client() accepts the
\* credentials.
GoogleForms == [cred : {None, "cred"}, bucket : {"", "bkt"}, objName : {"", "obj"},
                fileName : {"", "f.csv"}, SUBMIT : BOOLEAN, clientOk : BOOLEAN]

\* "ok", an exception that leaves the destination as it was ("fail"), or an
\* exception raised after the destination was opened for writing
\* ("fail_trunc"), which leaves an empty file.
GoogleOutcomes == {"ok", "fail", "fail_trunc"}

\* os.path.join(os.getcwd(), name): the directory itself for an empty name.
JoinCwd(name) == IF name = "" THEN Cwd ELSE name

\* GoogleDownloader.__init__.
GoogleDownloader(f, env) ==
    LET obj0 == [kind |-> "google",
                 GOOGLE_APPLICATION_CREDENTIALS |-> f.cred,
                 GOOGLE_BUCKET_NAME |-> f.bucket,
                 GOOGLE_STORAGE_OBJECT_NAME |-> f.objName,
                 GOOGLE_DESTINATION_FILE_NAME |-> JoinCwd(f.fileName),
                 SUBMIT |-> f.SUBMIT,
                 GoogleClient |-> FALSE,
                 SUCCESSFUL |-> FALSE]
        env1 == [env EXCEPT !.GOOGLE_APPLICATION_CREDENTIALS = "google_credentials.json"]
    IN  IF ~f.SUBMIT
        THEN [obj |-> obj0, environ |-> env, msgs |-> {}, raised |-> FALSE]
        ELSE IF \/ obj0.GOOGLE_BUCKET_NAME = ""
                \/ obj0.GOOGLE_STORAGE_OBJECT_NAME = ""
                \/ obj0.GOOGLE_DESTINATION_FILE_NAME = ""
                \/ obj0.GOOGLE_APPLICATION_CREDENTIALS = None
        THEN [obj |-> obj0, environ |-> env, msgs |-> {ErrParams}, raised |-> FALSE]
        ELSE IF f.clientOk
        THEN [obj |-> [obj0 EXCEPT !.GoogleClient = TRUE, !.SUCCESSFUL = TRUE],
              environ |-> env1, msgs |-> {MsgValidated, MsgLoaded}, raised |-> FALSE]
        ELSE [obj |-> obj0, environ |-> env1, msgs |-> {MsgValidated, ErrException},
              raised |-> FALSE]

\* GoogleDownloader.downloadBlob: every exception is caught, shown and
\* clears SUCCESSFUL.
downloadBlobGoogle(obj, outcome, content, d) ==
    LET dest == obj.GOOGLE_DESTINATION_FILE_NAME
        st0 == [obj |-> obj, disk |-> d, msgs |-> {}, raised |-> FALSE,
                failed |-> FALSE, attempted |-> FALSE, wrote |-> {}]
        caught == [st0 EXCEPT !.obj.SUCCESSFUL = FALSE, !.msgs = {ErrException},
                              !.failed = TRUE, !.attempted = TRUE]
    IN  IF ~obj.SUCCESSFUL
        THEN [st0 EXCEPT !.msgs = {ErrParams}]
        \* the destination is the working directory itself
        ELSE IF dest \notin FileNames
        THEN caught
        ELSE IF outcome = "ok"
        THEN [st0 EXCEPT !.disk[dest] = content, !.msgs = {MsgDownloaded},
                         !.attempted = TRUE, !.wrote = {dest}]
        ELSE IF outcome = "fail_trunc"
        THEN [caught EXCEPT !.disk[dest] = "bad"]
        ELSE caught

----------------------------------------------------------------------------
(* Where a page run takes its data from: the widgets of the upload section *)
(* and, for a submitted cloud form, what the provider answers.             *)

NoForm == [SUBMIT |-> FALSE]

Source(kind, upload, csp, form, listing, failAt, outcome, content) ==
    [kind |-> kind, upload |-> upload, csp |-> csp, form |-> form, listing |-> listing,
     failAt |-> failAt, outcome |-> outcome, content |-> content]

\* Small File(s): the uploader holds no file or a file.
SmallSources ==
    {Source("small", u, "Select a CSP", NoForm, <<>>, 0, "ok", "bad") :
        u \in {None} \cup Contents}

\* Large File(s) and no form submitted in this run: no provider selected, or
\* the form of a provider shown and left alone (the three forms behave alike).
IdleForm(csp) ==
    CASE csp = "Azure" -> [conn |-> "conn", blobName |-> "blob", localPath |-> Cwd,
                           SUBMIT |-> FALSE, connectOk |-> TRUE]
      [] csp = "Amazon" -> [FROM_CREDENTIAL_FILE |-> FALSE, credFile |-> None,
                            keyId |-> "AK", secret |-> "SK", bucket |-> "bkt",
                            objKey |-> "key", fileName |-> "f.csv", SUBMIT |-> FALSE]
      [] csp = "Google" -> [cred |-> "cred", bucket |-> "bkt", objName |-> "obj",
                            fileName |-> "f.csv", SUBMIT |-> FALSE, clientOk |-> TRUE]
      [] OTHER -> NoForm
IdleLargeSources ==
    {Source("large", None, c, IdleForm(c), <<>>, 0, "ok", "bad") :
        c \in {"Select a CSP", "Amazon"}}

\* Large File(s) and the form of the provider submitted in this run.  The
\* forms a page run submits: the fields filled in, or the form a provider's
\* validation rejects; what the provider answers is enumerated only for the
\* forms that reach the download.
AzurePageForms ==
    {f \in AzureForms :
        /\ f.SUBMIT /\ f.blobName = "blob" /\ f.localPath = Cwd
        /\ f.conn = "" => f.connectOk}
AWSPageForms ==
    {f \in AWSForms :
        /\ f.SUBMIT /\ f.bucket = "bkt" /\ f.objKey = "key" /\ f.fileName = "f.csv"
        /\ f.FROM_CREDENTIAL_FILE => f.credFile \in {"good", "nokeys"}
        /\ ~f.FROM_CREDENTIAL_FILE => (f.keyId = "AK" /\ f.secret = "SK")}
GooglePageForms ==
    {f \in GoogleForms :
        /\ f.SUBMIT /\ f.bucket = "bkt" /\ f.objName = "obj" /\ f.fileName = "f.csv"
        /\ f.cred = None => f.clientOk}
PageListings == {<<>>, <<[name |-> "f.csv", content |-> "t1"]>>}
AzureSources ==
    {src \in {Source("large", None, "Azure", f, l, k, "ok", "bad") :
                 f \in AzurePageForms, l \in PageListings, k \in 0..1} :
        (src.form.conn = "" \/ ~src.form.connectOk)
            => (src.failAt = 0 /\ src.listing = <<>>)}
AWSSources ==
    {src \in {Source("large", None, "Amazon", f, <<>>, 0, o, c) :
                 f \in AWSPageForms, o \in {"ok", "404", "500", "other"},
                 c \in {"t1", "bad", NonText}} :
        /\ src.outcome # "ok" => src.content = "bad"
        /\ src.form.credFile # "good" => src.outcome = "ok" /\ src.content = "bad"}
GoogleSources ==
    {src \in {Source("large", None, "Google", f, <<>>, 0, o, c) :
                 f \in GooglePageForms, o \in GoogleOutcomes, c \in {"t1", "bad"}} :
        /\ src.outcome # "ok" => src.content = "bad"
        /\ (src.form.cred = None \/ ~src.form.clientOk)
               => src.outcome = "ok" /\ src.content = "bad"}
SubmitSources == AzureSources \cup AWSSources \cup GoogleSources

\* The button handlers run with these: a form and another button are never
\* pressed in the same run, and an unreadable upload ends the run before the
\* button is reached.
ButtonSources == {src \in SmallSources : src.upload # "bad"} \cup IdleLargeSources

NoDl == [provider |-> "none", SUCCESSFUL |-> FALSE, attempted |-> FALSE,
         failed |-> FALSE, raised |-> FALSE, wrote |-> {}, msgs |-> {},
         ctorRaised |-> FALSE]

\* What the downloader section of a run did: c is what the constructor
\* returned, r what the download method returned (the method is called only
\* when the constructor left SUCCESSFUL set).
Downloaded(provider, c, r, d, env) ==
    IF c.raised \/ ~c.obj.SUCCESSFUL
    THEN [disk |-> d, environ |-> env, obj |-> c.obj,
          dl |-> [NoDl EXCEPT !.provider = provider, !.msgs = c.msgs,
                              !.ctorRaised = c.raised]]
    ELSE [disk |-> r.disk, environ |-> env, obj |-> r.obj,
          dl |-> [provider |-> provider, SUCCESSFUL |-> TRUE, attempted |-> r.attempted,
                  failed |-> r.failed, raised |-> r.raised, wrote |-> r.wrote,
                  msgs |-> c.msgs \cup r.msgs, ctorRaised |-> FALSE]]

FetchAzure(c, src, d, env) ==
    Downloaded("Azure", c, downloadBlobAzure(c.obj, src.listing, src.failAt, d), d, env)
FetchAWS(c, src, d) ==
    Downloaded("Amazon", c, downloadFile(c.obj, src.outcome, src.content, d), d, c.environ)
FetchGoogle(c, src, d) ==
    Downloaded("Google", c, downloadBlobGoogle(c.obj, src.outcome, src.content, d), d,
               c.environ)

\* The downloader section of a run in Large File(s) mode.
Fetch(src, d, env) ==
    CASE src.csp = "Azure" -> FetchAzure(AzureDownloader(src.form), src, d, env)
      [] src.csp = "Amazon" -> FetchAWS(AWSDownloader(src.form, env), src, d)
      [] src.csp = "Google" -> FetchGoogle(GoogleDownloader(src.form, env), src, d)
      [] OTHER -> [disk |-> d, environ |-> env, obj |-> NoObj, dl |-> NoDl]

\* The attribute the NLP Toolkit page reads the downloaded file from
\* (toolkit_nlp.py, lines 121, 135, 149).
ToolkitPath(f) ==
    CASE f.dl.provider = "Azure" -> f.obj.AZURE_DOWNLOAD_PATH
      [] f.dl.provider = "Amazon" -> f.obj.AWS_FILE_NAME
      [] OTHER -> f.obj.GOOGLE_DESTINATION_FILE_NAME

\* The attribute the Document-Term Matrix page reads it from
\* (document_term_matrix.py, lines 118, 130, 142).
DTMPath(f) ==
    CASE f.dl.provider = "Azure" -> f.obj.AZURE_DOWNLOAD_ABS_PATH
      [] f.dl.provider = "Amazon" -> f.obj.AWS_FILE_NAME
      [] OTHER -> f.obj.GOOGLE_DESTINATION_FILE_NAME

\* The try block of a provider after the constructor left SUCCESSFUL set:
\* the download, then readFile on path; every exception is shown.
ReadDownloaded(st, f, path) ==
    IF f.dl.raised THEN [st EXCEPT !.msgs = @ \cup {ErrTryAgain}]
    ELSE [st EXCEPT !.read = readFile(path, f.disk), !.readCalled = TRUE,
                    !.readPath = path,
                    !.msgs = IF readFile(path, f.disk).raised THEN @ \cup {ErrTryAgain}
                             ELSE @]

\* The upload section of a run as it executes: s is the page state, read the
\* result of the readFile call on a downloaded file.
Loading(s, d, env) ==
    [s |-> s, disk |-> d, environ |-> env, msgs |-> {}, exc |-> FALSE, dl |-> NoDl,
     read |-> [raised |-> TRUE, df |-> EmptyDF], readCalled |-> FALSE, readPath |-> None,
     selector |-> FALSE]

\* The section after the downloader ran.
Fetched(st, f) ==
    [st EXCEPT !.disk = f.disk, !.environ = f.environ, !.msgs = f.dl.msgs, !.dl = f.dl,
               !.exc = f.dl.ctorRaised]

----------------------------------------------------------------------------
(* The history of the last page run.                                       *)

NoRun == [page |-> "none", mode |-> "none", button |-> "none",
          upload |-> None,         \* the file the uploader of the run held
          shown |-> 0,             \* the rows of the Document-Term Matrix displayed
          VERBOSITY_DTM |-> 0,     \* the slider of the run that displayed them
          model |-> "-",           \* the analyser or topic model selected in the run
          picked |-> None,         \* the column the user chose in the selector a provider's
                                   \* section showed in the run before
          SAVE |-> FALSE, VERBOSE |-> FALSE, ONE_DATAPOINT |-> FALSE,
          outcome |-> "none",      \* "completed", or "uncaught": an exception ended the run
          msgs |-> {},         \* the messages the run displayed
          emptyAtPress |-> FALSE,  \* the dataset was empty when the handler started
          processed |-> FALSE,     \* the handler processed the dataset
          colRead |-> "none",      \* DATA[DATA_COLUMN] was read: "present" or "missing"
          wrote |-> <<>>,          \* the files written to the download directory
          fc0 |-> 0,               \* FC when the run started
          readCalled |-> FALSE,    \* readFile was called on a downloaded path
          readPath |-> None,       \* the path it was called with
          dl |-> NoDl]             \* the downloader section of the run

----------------------------------------------------------------------------
(* pyfiles/pages/document_term_matrix.py                                   *)

\* df.head(n)
FirstN(s, n) == SubSeq(s, 1, IF n < Len(s) THEN n ELSE Len(s))

\* ' '.join(DATA[DATA_COLUMN]): one string holding the words of every document.
RECURSIVE JoinDocs(_)
JoinDocs(docs) == IF docs = <<>> THEN <<>> ELSE docs[1] \o JoinDocs(Tail(docs))

\* The string of the first document only.
word_string_first(docs) == docs[1]

word_string(docs) == JoinDocs(docs)

Count(w, doc) == Cardinality({i \in 1..Len(doc) : doc[i] = w})

\* The vocabulary CountVectorizer(stop_words=...) learns from the documents.
Features(docs) ==
    {w \in Vocab \ StopWords : \E i \in 1..Len(docs) : Count(w, docs[i]) > 0}

\* CountVectorizer.fit_transform: one row of counts per document given; an
\* empty vocabulary raises ValueError.
fit_transform(docs) ==
    IF Features(docs) = {}
    THEN [raised |-> TRUE, rows |-> <<>>]
    ELSE [raised |-> FALSE,
          rows |-> [i \in 1..Len(docs) |-> [w \in Features(docs) |-> Count(w, docs[i])]]]

\* A matrix with one row for each document.
BuildDTM_perDocument(docs) == fit_transform(docs)

\* The Document-Term Matrix of the Proceed handler: the joined string is the
\* only document handed to the vectoriser.
BuildDTM(docs) == fit_transform(<<word_string(docs)>>)

Rank(w) == CASE w = "w1" -> 1 [] w = "w2" -> 2 [] OTHER -> 3

\* DTM.copy().transpose() sorted by 'Word Frequency', descending (words of
\* equal frequency in the order of the columns).
RECURSIVE SortByFrequency(_, _)
SortByFrequency(row, words) ==
    IF words = {} THEN <<>>
    ELSE LET top == CHOOSE x \in words : \A y \in words :
                        \/ row[x] > row[y]
                        \/ (row[x] = row[y] /\ Rank(x) <= Rank(y))
         IN  <<[word |-> top, freq |-> row[top]]>> \o SortByFrequency(row, words \ {top})

SortedDTM(rows) == SortByFrequency(rows[1], DOMAIN rows[1])

\* A plotly figure: None, or the line plot of the given points.
NoFig == [plotted |-> FALSE, points |-> <<>>]
plot(points) == [plotted |-> TRUE, points |-> points]

InitDTM == [DATA |-> EmptyDF, DATA_COLUMN |-> None, DTM |-> <<>>, DTM_copy_ |-> <<>>,
            TOP_N_WORD_FIG |-> NoFig, N |-> 100]

\* The checkboxes and the slider of the flags section; the widgets under
\* 'Conduct Analysis' exist only when it is checked.
DTMFlags ==
    {fl \in [SAVE : BOOLEAN, ANALYSIS : BOOLEAN, VERBOSE_DTM : BOOLEAN,
             VERBOSITY_DTM : {1, 20}, VERBOSE_ANALYSIS : BOOLEAN, N : {1, 100}] :
        /\ ~fl.ANALYSIS => (~fl.VERBOSE_DTM /\ ~fl.VERBOSE_ANALYSIS)
        /\ ~fl.VERBOSE_DTM => fl.VERBOSITY_DTM = 20
        /\ ~fl.VERBOSE_ANALYSIS => fl.N = 100}
\* In a run without the button the flags only set N.
DTMIdleFlags == {fl \in DTMFlags : ~fl.SAVE /\ ~fl.VERBOSE_DTM}

\* The columns the 'Choose Column where Data is Stored' selector of a Small
\* File(s) run can return.
Picks(src) ==
    IF src.kind = "small" /\ src.upload \in Contents /\ ~Empty(TableOf(src.upload))
    THEN ColSet(TableOf(src.upload))
    ELSE {None}

\* Small File(s) (lines 101-107): 'not DATA' of an empty DataFrame raises
\* ValueError.
DTMLoadSmall(st, up, pick) ==
    IF up.raised THEN [st EXCEPT !.exc = TRUE]
    ELSE IF Empty(up.df) THEN [st EXCEPT !.s.DATA = up.df, !.exc = TRUE]
    ELSE [st EXCEPT !.s.DATA = up.df, !.s.DATA_COLUMN = pick]

\* What follows readFile inside the try block of a provider: the selector is
\* created in this run and returns the first column.
DTMTake(st) ==
    IF st.read.raised THEN st
    ELSE [st EXCEPT !.s.DATA = st.read.df,
                    !.s.DATA_COLUMN = IF Empty(st.read.df) THEN @ ELSE st.read.df.cols[1]]

\* Large File(s) (lines 109-159).
DTMLoadLarge(st, f) ==
    IF f.dl.ctorRaised \/ ~f.dl.SUCCESSFUL THEN Fetched(st, f)
    ELSE DTMTake(ReadDownloaded(Fetched(st, f), f, DTMPath(f)))

\* The file uploading section (lines 100-159).  exc: an exception left app().
DTMLoad(g, src, pick, d, env) ==
    IF src.kind = "small"
    THEN IF src.upload = None THEN Loading(g, d, env)
         ELSE DTMLoadSmall(Loading(g, d, env), readFile(src.upload, d), pick)
    \* csp_downloaders has no GoogleDriveDownloader: AttributeError
    ELSE IF src.csp = "Google Drive" THEN [Loading(g, d, env) EXCEPT !.exc = TRUE]
    ELSE DTMLoadLarge(Loading(g, d, env), Fetch(src, d, env))

\* The flags section (lines 173-189): N is read from its slider only when
\* both checkboxes above it are checked.
DTMSetFlags(g, fl) ==
    IF fl.ANALYSIS /\ fl.VERBOSE_ANALYSIS THEN [g EXCEPT !.N = fl.N] ELSE g

\* A file of FINALISED_DATA_LIST; fresh: what it holds was computed in
\* this run.
DTMFile(name, fresh) == [name |-> name, id |-> 0, fresh |-> fresh]

\* The save section (lines 262-276).
DTMSave(g, fl) ==
    IF ~fl.SAVE THEN <<>>
    ELSE (IF g.DTM # <<>> THEN <<DTMFile("dtm.csv", TRUE)>> ELSE <<>>)
         \o (IF g.DTM_copy_ # <<>>
             THEN <<DTMFile("sorted_dtm.csv", fl.ANALYSIS /\ fl.VERBOSE_ANALYSIS)>>
             ELSE <<>>)
         \o (IF g.TOP_N_WORD_FIG.plotted
             THEN <<DTMFile("top_n.png", fl.ANALYSIS /\ fl.VERBOSE_ANALYSIS)>>
             ELSE <<>>)

\* The handler of Proceed as it runs on the globals g.
DTMPressed(g) ==
    [g |-> g, msgs |-> {}, exc |-> FALSE, processed |-> FALSE, colRead |-> "none",
     wrote |-> <<>>, emptyAtPress |-> Empty(g.DATA), shown |-> 0]

\* Lines 225-237: st.dataframe(DTM_copy.head(N)), the number of rows of the
\* Document-Term Matrix put on screen.  (The fallbacks of st.dataframe show
\* head(10) or nothing.)
DTMDisplay(g, fl) ==
    IF fl.ANALYSIS /\ fl.VERBOSE_DTM THEN Len(FirstN(g.DTM, g.N)) ELSE 0

\* Lines 223-251: the sorted table and the figure are assigned only when
\* both analysis checkboxes are checked.
DTMVisualise(g, fl) ==
    IF fl.ANALYSIS /\ fl.VERBOSE_ANALYSIS
    THEN [g EXCEPT !.DTM_copy_ = SortedDTM(g.DTM),
                   !.TOP_N_WORD_FIG = plot(FirstN(SortedDTM(g.DTM), g.N))]
    ELSE g

\* Lines 199-276 once the vectoriser returned.
DTMCreated(st, fl, built) ==
    IF built.raised THEN [st EXCEPT !.exc = TRUE, !.colRead = "present", !.processed = TRUE]
    ELSE [st EXCEPT !.g = DTMVisualise([st.g EXCEPT !.DTM = built.rows], fl),
                    !.shown = DTMDisplay([st.g EXCEPT !.DTM = built.rows], fl),
                    !.colRead = "present", !.processed = TRUE,
                    !.wrote = DTMSave(DTMVisualise([st.g EXCEPT !.DTM = built.rows], fl), fl)]

\* The handler of the Proceed button (lines 197-278).
DTMProceedHandler(g, fl) ==
    IF Empty(g.DATA) THEN [DTMPressed(g) EXCEPT !.msgs = {ErrNoFiles}]
    ELSE IF ~HasCol(g.DATA, g.DATA_COLUMN)
    THEN [DTMPressed(g) EXCEPT !.exc = TRUE, !.colRead = "missing"]
    ELSE DTMCreated(DTMPressed(g), fl, BuildDTM(ColumnText(g.DATA, g.DATA_COLUMN)))

----------------------------------------------------------------------------
(* pyfiles/pages/toolkit_nlp.py: the file uploading section.               *)

ErrFileNotLoaded == "error: File not loaded properly"

\* The columns of the uploaded tables; the selector is exercised on these.
OriginalColumns == {"a", "b", "c", "n"}

\* DATA[[DATA_COLUMN]]
Narrow(df, c) == [df EXCEPT !.cols = <<c>>]

\* DATA[name] = ... for each of the names: a new column is appended.
RECURSIVE AddColumns(_, _)
AddColumns(df, names) ==
    IF names = <<>> THEN df
    ELSE AddColumns(IF HasCol(df, names[1]) THEN df
                    ELSE [df EXCEPT !.cols = Append(@, names[1])],
                    Tail(names))

\* Small File(s) with a file in the uploader (lines 103-107).
ToolkitLoadSmall(st, up) ==
    IF up.raised THEN [st EXCEPT !.exc = TRUE]
    ELSE [st EXCEPT !.s.DATA = up.df, !.selector = ~Empty(up.df)]

\* What follows readFile inside the try block of a provider.
ToolkitTake(st) ==
    IF st.read.raised THEN st ELSE [st EXCEPT !.s.DATA = st.read.df]

\* The selector of a provider is shown after the try block when DATA is not
\* empty (lines 125, 139, 153).
ToolkitSelector(st) == [st EXCEPT !.selector = ~st.exc /\ ~Empty(st.s.DATA)]

\* Large File(s) with a provider selected (lines 116-156).
ToolkitLoadLarge(st, f) ==
    IF f.dl.ctorRaised \/ ~f.dl.SUCCESSFUL THEN ToolkitSelector(Fetched(st, f))
    ELSE ToolkitSelector(ToolkitTake(ReadDownloaded(Fetched(st, f), f, ToolkitPath(f))))

\* Lines 99-156 up to the column selectors.  selector: a 'Choose Column
\* where Data is Stored' selector is shown in this run.
ToolkitLoad(t, src, d, env) ==
    IF src.kind = "small"
    THEN IF src.upload = None THEN [Loading(t, d, env) EXCEPT !.s.DATA = EmptyDF]
         ELSE ToolkitLoadSmall(Loading(t, d, env), readFile(src.upload, d))
    ELSE IF src.csp = "Select a CSP" THEN Loading(t, d, env)
    ELSE ToolkitLoadLarge(Loading(t, d, env), Fetch(src, d, env))

\* What the selector of the run can return.
ToolkitPicks(ld) ==
    IF ld.selector THEN ColSet(ld.s.DATA) \cap OriginalColumns ELSE {None}

SelectColumn(t, pick) == IF pick = None THEN t ELSE [t EXCEPT !.DATA_COLUMN = pick]

----------------------------------------------------------------------------
(* pyfiles/pages/toolkit_nlp.py: the operations.                           *)

NumTopics == 1

\* The widgets of an operation that change what its handler stores or
\* writes; the others only change what is displayed.
ToolkitFlag(save, verbose, one, variant, lsiPlot, wordPlot) ==
    [SAVE |-> save, VERBOSE |-> verbose, ONE_DATAPOINT |-> one, variant |-> variant,
     PLOT |-> lsiPlot, W_PLOT |-> wordPlot]

\* 'Visualise One Data Point?' is shown when 'Display Outputs?' is checked.
RenderFlags ==
    {ToolkitFlag(s, v, o, "-", FALSE, FALSE) : s \in BOOLEAN, v \in BOOLEAN, o \in BOOLEAN}
    \ {ToolkitFlag(s, FALSE, TRUE, "-", FALSE, FALSE) : s \in BOOLEAN}
SaveFlags == {ToolkitFlag(s, FALSE, FALSE, "-", FALSE, FALSE) : s \in BOOLEAN}
SentimentFlags ==
    {ToolkitFlag(s, v, FALSE, b, FALSE, FALSE) :
        s \in BOOLEAN, v \in BOOLEAN, b \in {"VADER", "TextBlob"}}
\* The LSI plot checkboxes are shown when 'Display Outputs?' is checked.
TopicFlags ==
    {ToolkitFlag(s, FALSE, FALSE, m, FALSE, FALSE) :
        s \in BOOLEAN, m \in {"LDA", "NMF", "LSI"}}
    \cup {fl \in {ToolkitFlag(s, TRUE, FALSE, "LSI", p, w) :
                     s \in BOOLEAN, p \in BOOLEAN, w \in BOOLEAN} :
              fl.W_PLOT => fl.PLOT}

FlagsOf(button) ==
    CASE button \in {"Conduct Named Entity Recognition", "Start POS Tagging"} -> RenderFlags
      [] button = "Start Analysis" -> SentimentFlags
      [] button = "Start Modelling" -> TopicFlags
      [] button = "Proceed" -> {ToolkitFlag(FALSE, FALSE, FALSE, "-", FALSE, FALSE)}
      [] OTHER -> SaveFlags

\* The flags sections: ONE_DATAPOINT is assigned only in the Named Entity
\* Recognition and POS Tagging modes, and only when 'Display Outputs?' is
\* checked (lines 266-273, 385-392).
ToolkitSetFlags(t, button, fl) ==
    IF button \in {"Conduct Named Entity Recognition", "Start POS Tagging"} /\ fl.VERBOSE
    THEN [t EXCEPT !.ONE_DATAPOINT = fl.ONE_DATAPOINT]
    \* lines 937-967: the widgets of MIN_DF and MAX_DF are shown for Latent
    \* Dirichlet Allocation and Non-Negative Matrix Factorization only
    ELSE IF fl.variant \in {"LDA", "NMF"}
    THEN [t EXCEPT !.MIN_DF = fl.variant]
    ELSE t

\* The values of 'Select spaCy model' and what spacy.load answers: the
\* pipeline (loads), or OSError for a model that is not installed.  A
\* session that stays in Named Entity Recognition exercises both; the other
\* sessions keep the default model, which is installed.
Models == {"en_core_web_sm", "en_core_web_lg"}
SpacyInputs ==
    IF modes = {"Named Entity Recognition"}
    THEN [model : Models, loads : BOOLEAN]
    ELSE {[model |-> "en_core_web_sm", loads |-> TRUE]}

\* Lines 239-265 (and 358-384, 491-520): toolkit['NLP'] is assigned when
\* spacy.load returns; when it raises OSError the download is started and
\* toolkit['NLP'] is left as it was.
LoadModel(t, m) ==
    [t EXCEPT !.NLP_MODEL = m.model, !.NLP = IF m.loads THEN m.model ELSE @]

\* The state of a handler as it runs.
Pressed(t) ==
    [t |-> t, msgs |-> {}, exc |-> FALSE, processed |-> FALSE, colRead |-> "none",
     wrote |-> <<>>, emptyAtPress |-> Empty(t.DATA)]

\* A file named with the current FC is written, then FC is incremented.
SaveFile(st, name, fresh) ==
    [st EXCEPT !.wrote = Append(@, [name |-> name, id |-> st.t.FC, fresh |-> fresh]),
               !.t.FC = @ + 1]

\* open(..., 'w') creates the file named with the current FC, and the write
\* raises: FC is not incremented.
SaveRaises(st, name) ==
    [st EXCEPT !.wrote = Append(@, [name |-> name, id |-> st.t.FC, fresh |-> FALSE]),
               !.exc = TRUE]

Vocabulary(t) == Features(ColumnText(t.DATA, t.DATA_COLUMN))

\* st.error of the emptiness test.
NotLoaded(st, msg) == [st EXCEPT !.msgs = {msg}]
\* DATA[DATA_COLUMN] raises KeyError and nothing catches it.
Missing(st) == [st EXCEPT !.exc = TRUE, !.colRead = "missing"]
\* DATA[DATA_COLUMN] raises KeyError inside a try block: msg is shown.
CaughtMissing(st, msg) == [st EXCEPT !.msgs = {msg}, !.colRead = "missing"]
\* The column was read and DATA became data.
Processed(st, data) ==
    [st EXCEPT !.t.DATA = data, !.processed = TRUE, !.colRead = "present"]
Raise(st) == [st EXCEPT !.exc = TRUE]
\* A save section that does not test the checkbox.
SaveIf_unguarded(st, fl, name) == SaveFile(st, name, TRUE)

\* The save section of an operation that writes one CSV file.
SaveIf(st, fl, name) == IF fl.SAVE THEN SaveFile(st, name, TRUE) ELSE st

\* Word Cloud (lines 192-214).  WordCloud.generate raises ValueError for a
\* text without a word to plot.
WordCloudHandler(t, fl) ==
    IF Empty(t.DATA) THEN NotLoaded(Pressed(t), ErrNotLoaded)
    ELSE IF ~HasCol(t.DATA, t.DATA_COLUMN) THEN Missing(Pressed(t))
    ELSE IF Vocabulary(t) = {}
    THEN Raise(Processed(Pressed(t), Narrow(t.DATA, t.DATA_COLUMN)))
    ELSE SaveIf(Processed(Pressed(t), Narrow(t.DATA, t.DATA_COLUMN)), fl, "wordcloud.png")

\* toolkit['NLP'] is still the None of config.py: the columns were prepared
\* (lines 291-294), then calling it raises TypeError.
NoPipeline(st, names) ==
    [Raise(st) EXCEPT !.t.DATA = AddColumns(Narrow(@, st.t.DATA_COLUMN), names),
                      !.colRead = "present"]

\* Lines 304-318: the rendering of one data point.
NERRender(st, fl) ==
    IF fl.VERBOSE /\ st.t.ONE_DATAPOINT THEN [st EXCEPT !.t.SVG = "ent"] ELSE st

\* Lines 326-332: the stored ONE_DATAPOINT is tested and the stored SVG is
\* written; f.write(None) raises TypeError.
NERSaveRender(st, fl) ==
    IF ~st.t.ONE_DATAPOINT THEN st
    ELSE IF st.t.SVG = None THEN SaveRaises(st, "rendering.html")
    ELSE SaveFile(st, "rendering.html", fl.VERBOSE)

NERSave(st, fl) ==
    IF fl.SAVE THEN NERSaveRender(SaveFile(st, "ner.csv", TRUE), fl) ELSE st

\* Named Entity Recognition (lines 289-334).
NERHandler(t, fl) ==
    IF Empty(t.DATA) THEN NotLoaded(Pressed(t), ErrNotLoaded)
    ELSE IF ~HasCol(t.DATA, t.DATA_COLUMN) THEN Missing(Pressed(t))
    ELSE IF t.NLP = None THEN NoPipeline(Pressed(t), <<"NER", "COMPILED_LABELS">>)
    ELSE NERSave(NERRender(Processed(Pressed(t),
                                     AddColumns(Narrow(t.DATA, t.DATA_COLUMN),
                                                <<"NER", "COMPILED_LABELS">>)),
                           fl),
                 fl)

\* Line 412: toolkit['SVG'] = None
POSPressed(t) == [Pressed(t) EXCEPT !.t.SVG = None]

\* Lines 430-450: the rendering is written whenever it is made.
POSRender(st, fl) ==
    IF fl.VERBOSE /\ st.t.ONE_DATAPOINT
    THEN SaveFile([st EXCEPT !.t.SVG = "dep"], "rendering.html", TRUE)
    ELSE st

\* POS Tagging (lines 410-459).
POSHandler(t, fl) ==
    IF Empty(t.DATA) THEN NotLoaded(POSPressed(t), ErrNotLoaded)
    ELSE IF ~HasCol(t.DATA, t.DATA_COLUMN) THEN Missing(POSPressed(t))
    ELSE IF t.NLP = None THEN NoPipeline(POSPressed(t), <<"POS", "COMPILED_LABELS">>)
    ELSE SaveIf(POSRender(Processed(POSPressed(t),
                                    AddColumns(Narrow(t.DATA, t.DATA_COLUMN),
                                               <<"POS", "COMPILED_LABELS">>)),
                          fl),
                fl, "pos.csv")

\* Summarise, Basic (lines 544-576): the KeyError of the column is caught and
\* the display and save sections follow.
SummariseBasicHandler(t, fl) ==
    IF Empty(t.DATA) THEN NotLoaded(Pressed(t), ErrNotLoaded)
    ELSE IF ~HasCol(t.DATA, t.DATA_COLUMN)
    THEN SaveIf(CaughtMissing(Pressed(t), ErrColumn), fl, "summarised.csv")
    ELSE IF t.NLP = None THEN NoPipeline(Pressed(t), <<"SUMMARY">>)
    ELSE SaveIf(Processed(Pressed(t), AddColumns(Narrow(t.DATA, t.DATA_COLUMN),
                                                 <<"SUMMARY">>)),
                fl, "summarised.csv")

\* Summarise, Advanced (lines 644-678): the emptiness test guards the
\* processing only.
SummariseAdvancedHandler(t, fl) ==
    IF Empty(t.DATA) THEN SaveIf(Pressed(t), fl, "summarised.csv")
    ELSE IF ~HasCol(t.DATA, t.DATA_COLUMN) THEN Missing(Pressed(t))
    ELSE SaveIf(Processed(Pressed(t), AddColumns(t.DATA, <<"SUMMARISED">>)),
                fl, "summarised.csv")

VaderColumns == <<"VADER SENTIMENT TEXT", "VADER OVERALL SENTIMENT", "VADER OVERALL SCORE",
                  "VADER POSITIVE SCORING", "VADER NEUTRAL SCORING", "VADER NEGATIVE SCORING">>
TextBlobColumns == <<"POLARITY SCORE", "POLARITY SENTIMENT", "SUBJECTIVITY SCORE",
                     "SUBJECTIVITY SENTIMENT">>

\* The cells of column c are strings: TextBlob(x) and polarity_scores(x)
\* raise TypeError for a cell that is not.
IsText(df, c) == ~(df.src = NonText /\ c = "n")

\* Lines 721-790: the exceptions of the scoring (the KeyError of the column,
\* the TypeError of a cell) are caught for TextBlob only.
SentimentScores(st, fl) ==
    IF HasCol(st.t.DATA, st.t.DATA_COLUMN) /\ ~IsText(st.t.DATA, st.t.DATA_COLUMN)
    THEN IF fl.variant = "VADER" THEN [Raise(st) EXCEPT !.colRead = "present"]
         ELSE [st EXCEPT !.msgs = {ErrException}, !.colRead = "present"]
    ELSE IF HasCol(st.t.DATA, st.t.DATA_COLUMN)
    THEN Processed(st, AddColumns(st.t.DATA, IF fl.variant = "VADER" THEN VaderColumns
                                             ELSE TextBlobColumns))
    ELSE IF fl.variant = "VADER" THEN Missing(st)
    ELSE CaughtMissing(st, ErrException)

\* Lines 793-842: the tests of the columns are always true.
SentimentPlots(st, fl) ==
    IF st.exc \/ ~fl.VERBOSE THEN st
    ELSE IF fl.variant = "VADER"
    THEN [st EXCEPT !.t.HAC_PLOT = "distplot", !.t.HAC_PLOT1 = None]
    ELSE IF HasCol(st.t.DATA, "SUBJECTIVITY SCORE") /\ HasCol(st.t.DATA, "POLARITY SCORE")
    THEN [st EXCEPT !.t.HAC_PLOT = "scatter", !.t.HAC_PLOT1 = "distplot"]
    ELSE Raise(st)

SavePlot(st, fl) ==
    IF st.t.HAC_PLOT # None THEN SaveFile(st, "plot.png", fl.VERBOSE) ELSE st
SavePlot1(st, fl) ==
    IF st.t.HAC_PLOT1 # None THEN SaveFile(st, "normal_plot.png", fl.VERBOSE) ELSE st

\* Lines 845-864: the stored HAC_PLOT and HAC_PLOT1 are written when they
\* are not None.
SentimentSave(st, fl) ==
    IF st.exc \/ ~fl.SAVE THEN st
    ELSE SavePlot1(SavePlot(SaveFile(st, "sentiment_scores.csv", TRUE), fl), fl)

\* Analyse Sentiment (lines 719-866).
SentimentHandler(t, fl) ==
    IF Empty(t.DATA) THEN NotLoaded(Pressed(t), ErrNotLoaded)
    ELSE SentimentSave(SentimentPlots(SentimentScores(Pressed(t), fl), fl), fl)

\* The loop that writes one file per topic.
RECURSIVE SaveTopics(_, _, _)
SaveTopics(st, name, k) ==
    IF k = 0 THEN st ELSE SaveFile(SaveTopics(st, name, k - 1), name, TRUE)

\* What the save section of a model writes after the topics and their
\* summary (lines 1065, 1214-1227).
TopicSaveModel(st, fl) ==
    IF fl.variant = "LDA" THEN SaveFile(st, "lda.html", TRUE)
    ELSE IF fl.variant = "LSI" /\ fl.VERBOSE /\ fl.PLOT
    THEN IF fl.W_PLOT THEN SaveFile(SaveFile(st, "marker.png", TRUE), "word.png", TRUE)
         ELSE SaveFile(st, "marker.png", TRUE)
    ELSE st

TopicSave(st, fl) ==
    IF fl.SAVE
    THEN TopicSaveModel(SaveFile(SaveTopics(st, "topic.csv", NumTopics),
                                 "summary_topics.csv", TRUE), fl)
    ELSE st

\* Topic Modelling (lines 992-1229): the exceptions of the vectoriser are
\* caught.
TopicModellingHandler(t, fl) ==
    IF Empty(t.DATA) THEN NotLoaded(Pressed(t), ErrFileNotLoaded)
    ELSE IF ~HasCol(t.DATA, t.DATA_COLUMN) THEN CaughtMissing(Pressed(t), ErrException)
    ELSE IF Vocabulary(t) = {}
    THEN [Pressed(t) EXCEPT !.msgs = {ErrColumn}, !.colRead = "present"]
    ELSE TopicSave(Processed(Pressed(t), t.DATA), fl)

\* Topic Classification (lines 1295-1317): no emptiness test; the labels of
\* a classified document are a list, and x['labels'].tolist() raises.
TopicClassificationHandler(t, fl) ==
    IF ~HasCol(t.DATA, t.DATA_COLUMN) THEN Missing(Pressed(t))
    ELSE IF t.DATA.n > 0 THEN Raise(Processed(Pressed(t), t.DATA))
    ELSE SaveIf(Processed(Pressed(t), AddColumns(t.DATA, <<"TEST", "CLASSIFIED",
                                                           "MOST PROBABLE TOPIC">>)),
                fl, "classified.csv")

\* Real/Fake News Detector (lines 1374-1400): raise NotImplementedError
RealFakeHandler(t, fl) == Raise(Pressed(t))

----------------------------------------------------------------------------
(* The state after the modules are imported.                               *)

\* config.toolkit
InitToolkit == [DATA |-> EmptyDF, DATA_COLUMN |-> None, FC |-> 0,
                ONE_DATAPOINT |-> FALSE, SVG |-> None,
                HAC_PLOT |-> None, HAC_PLOT1 |-> None,
                \* MIN_DF and MAX_DF: the values of config.py, or those of the
                \* widgets of the "LDA" or "NMF" flags
                MIN_DF |-> "config",
                \* the radio button 'Select spaCy model' and the pipeline loaded
                NLP_MODEL |-> None, NLP |-> None]

\* The browser sessions of the server process: each runs app() in a thread
\* of its own, and config.toolkit is the one dictionary all of them use.
Sessions == {1, 2}

\* A session outside the save section of a run.
NoSession == [pc |-> "idle", todo |-> <<>>, id |-> 0, tmp |-> 0, overwrote |-> FALSE]

NoCall == [op |-> "none", form |-> NoForm, msgs |-> {}, raised |-> FALSE,
           failed |-> FALSE, wrote |-> {}]

InitCommon ==
    /\ toolkit = InitToolkit
    /\ dtm = InitDTM
    /\ aws = NoObj /\ azure = NoObj /\ gcs = NoObj
    /\ disk = InitDisk
    /\ environ = InitEnviron
    /\ usedIds = {} /\ dupId = FALSE
    /\ call = NoCall
    /\ run = NoRun
    /\ sessions = [s \in Sessions |-> NoSession]
    /\ downloads = {}

----------------------------------------------------------------------------
(* Runs of the Document-Term Matrix page.                                  *)

GoogleDriveSource == Source("large", None, "Google Drive", NoForm, <<>>, 0, "ok", "bad")

\* A run of app() in which Proceed is not pressed, with the given inputs.
DTMRunWithout(Sources) ==
    /\ \E src \in Sources, fl \in DTMIdleFlags : \E pick \in Picks(src) :
       \E ld \in {DTMLoad(dtm, src, pick, disk, environ)} :
         /\ dtm' = IF ld.exc THEN ld.s ELSE DTMSetFlags(ld.s, fl)
         /\ disk' = ld.disk
         /\ environ' = ld.environ
         /\ run' = [NoRun EXCEPT !.page = "dtm", !.mode = src.kind, !.upload = src.upload,
                                 !.outcome = IF ld.exc THEN "uncaught" ELSE "completed",
                                 !.msgs = ld.msgs, !.dl = ld.dl,
                                 !.readCalled = ld.readCalled,
                                 !.readPath = ld.readPath]
    /\ UNCHANGED <<page, sessions, downloads, toolkit, aws, azure, gcs, usedIds, dupId, call, corpus, modes>>

\* The user uploads or removes a file, or switches the size of file.
DTMIdle == /\ page = "dtm"
           /\ DTMRunWithout(SmallSources \cup IdleLargeSources)

\* The user submits the form of a provider, or selects 'Google Drive'.
DTMFetch == /\ page = "dtm"
            /\ DTMRunWithout(SubmitSources \cup {GoogleDriveSource})

\* A run of app() in which Proceed is pressed, with the given inputs.
DTMProceedWith(Sources, Flags) ==
    /\ \E src \in Sources, fl \in Flags : \E pick \in Picks(src) :
       \E ld \in {DTMLoad(dtm, src, pick, disk, environ)} :
       \E h \in {DTMProceedHandler(DTMSetFlags(ld.s, fl), fl)} :
       \E log \in {[NoRun EXCEPT !.page = "dtm", !.mode = src.kind, !.upload = src.upload, !.button = "Proceed",
                                 !.SAVE = fl.SAVE, !.msgs = ld.msgs, !.dl = ld.dl]} :
         /\ disk' = ld.disk
         /\ environ' = ld.environ
         /\ IF ld.exc
            THEN /\ dtm' = ld.s
                 /\ run' = [log EXCEPT !.outcome = "uncaught"]
            ELSE /\ dtm' = h.g
                 /\ run' = [log EXCEPT
                               !.outcome = IF h.exc THEN "uncaught" ELSE "completed",
                               !.msgs = @ \cup h.msgs,
                               !.emptyAtPress = h.emptyAtPress,
                               !.processed = h.processed,
                               !.colRead = h.colRead,
                               !.wrote = h.wrote,
                               !.shown = h.shown,
                               !.VERBOSITY_DTM = IF h.shown > 0 THEN fl.VERBOSITY_DTM
                                                 ELSE 0]
    /\ UNCHANGED <<page, sessions, downloads, toolkit, aws, azure, gcs, usedIds, dupId, call, corpus, modes>>

DTMProceed == /\ page = "dtm"
              /\ DTMProceedWith(ButtonSources, DTMFlags)

\* Proceed on an uploaded table with rows, the analysis left alone.
DTMCount ==
    /\ page = "dtm"
    /\ DTMProceedWith({src \in SmallSources : src.upload = "t1"},
                      {fl \in DTMFlags : ~fl.SAVE /\ ~fl.ANALYSIS})

\* The last run read a table with rows inside the try block of a provider
\* and showed the 'Choose Column where Data is Stored' selector (lines
\* 119-121, 131-133, 143-145).
SelectorShown ==
    /\ run.page = "dtm" /\ run.mode = "large" /\ run.outcome = "completed"
    /\ run.readCalled
    /\ ~readFile(run.readPath, disk).raised
    /\ ~Empty(readFile(run.readPath, disk).df)

\* The user chooses column c in that selector.  Streamlit runs app() again
\* with the form not submitted: the constructor leaves SUCCESSFUL unset, the
\* try block with the selector is skipped and no statement reads the choice.
DTMChoose ==
    /\ page = "dtm"
    /\ SelectorShown
    /\ \E src \in {s \in IdleLargeSources : s.csp = "Amazon"}, c \in ColSet(dtm.DATA) :
       \E ld \in {DTMLoad(dtm, src, None, disk, environ)} :
         /\ dtm' = ld.s
         /\ disk' = ld.disk
         /\ environ' = ld.environ
         /\ run' = [NoRun EXCEPT !.page = "dtm", !.mode = src.kind,
                                 !.outcome = IF ld.exc THEN "uncaught" ELSE "completed",
                                 !.msgs = ld.msgs, !.dl = ld.dl, !.picked = c]
    /\ UNCHANGED <<page, sessions, downloads, toolkit, aws, azure, gcs, usedIds, dupId, call, corpus, modes>>

\* Proceed pressed in Large File(s) mode, in a run after the one that
\* downloaded the table.
DTMProceedLarge == /\ page = "dtm"
                   /\ DTMProceedWith(IdleLargeSources, DTMFlags)

----------------------------------------------------------------------------
(* Runs of the NLP Toolkit page.                                           *)

Ids(wrote) == {wrote[i].id : i \in 1..Len(wrote)}

\* Some file of the run is named with an id another file already has.
Reuses(wrote, used) ==
    \/ \E i \in 1..Len(wrote) : wrote[i].id \in used
    \/ \E i, j \in 1..Len(wrote) : i < j /\ wrote[i].id = wrote[j].id

\* The toolkit state the handler of a button starts from: the column
\* selected and the flags stored.
Prepared(ld, pick, button, fl) == ToolkitSetFlags(SelectColumn(ld.s, pick), button, fl)

\* What a run in which button is pressed leaves behind: ld is the upload
\* section of the run and h its handler.
ToolkitCommit(button, src, fl, ld, h) ==
    /\ h.t.FC <= MaxFC
    /\ toolkit' = h.t
    /\ disk' = ld.disk
    /\ environ' = ld.environ
    /\ usedIds' = usedIds \cup Ids(h.wrote)
    /\ dupId' = (dupId \/ Reuses(h.wrote, usedIds))
    /\ run' = [NoRun EXCEPT !.page = "toolkit", !.mode = src.kind, !.upload = src.upload, !.button = button,
                            !.SAVE = fl.SAVE, !.VERBOSE = fl.VERBOSE,
                            !.model = fl.variant,
                            !.ONE_DATAPOINT = h.t.ONE_DATAPOINT,
                            !.outcome = IF h.exc THEN "uncaught" ELSE "completed",
                            !.msgs = ld.msgs \cup h.msgs,
                            !.emptyAtPress = h.emptyAtPress,
                            !.processed = h.processed,
                            !.colRead = h.colRead,
                            !.wrote = h.wrote,
                            !.fc0 = toolkit.FC,
                            !.dl = ld.dl]
    /\ UNCHANGED <<page, sessions, downloads, dtm, aws, azure, gcs, call, corpus, modes>>

\* The flags of a run in which no operation button is pressed: only those
\* of the Named Entity Recognition and POS Tagging modes and the model of
\* the Topic Modelling mode store something a later run reads.
IdleFlags ==
    IF modes \cap {"Named Entity Recognition", "POS Tagging"} # {}
    THEN {f \in RenderFlags : ~f.SAVE}
    ELSE IF "Topic Modelling" \in modes
    THEN {f \in TopicFlags : ~f.SAVE /\ ~f.VERBOSE}
    ELSE {ToolkitFlag(FALSE, FALSE, FALSE, "-", FALSE, FALSE)}

\* A run of app() in which no operation button is pressed.
ToolkitRunWithout(Sources) ==
    \E src \in Sources, fl \in IdleFlags :
    \E ld \in {ToolkitLoad(toolkit, src, disk, environ)} :
    \E pick \in ToolkitPicks(ld) :
        /\ toolkit' = IF ld.exc THEN ld.s
                      ELSE ToolkitSetFlags(SelectColumn(ld.s, pick),
                                           "Conduct Named Entity Recognition", fl)
        /\ disk' = ld.disk
        /\ environ' = ld.environ
        /\ run' = [NoRun EXCEPT !.page = "toolkit", !.mode = src.kind, !.upload = src.upload,
                                !.outcome = IF ld.exc THEN "uncaught" ELSE "completed",
                                !.msgs = ld.msgs, !.fc0 = toolkit.FC, !.dl = ld.dl,
                                !.readCalled = ld.readCalled,
                                !.readPath = ld.readPath]
        /\ UNCHANGED <<page, sessions, downloads, dtm, aws, azure, gcs, usedIds, dupId, call, corpus, modes>>

\* The user uploads or removes a file, switches the size of file or changes
\* a flag.
ToolkitIdle == /\ page = "toolkit"
               /\ ToolkitRunWithout(SmallSources \cup IdleLargeSources)
\* The user submits the form of a provider.
ToolkitFetch == /\ page = "toolkit"
                /\ ToolkitRunWithout(SubmitSources)
\* The user submits the Amazon form with a credentials file and the object
\* is delivered.
ToolkitDownload ==
    /\ page = "toolkit"
    /\ ToolkitRunWithout({src \in AWSSources :
                             src.form.credFile = "good" /\ src.outcome = "ok"})
WordCloud ==
    /\ page = "toolkit"
    /\ "Word Cloud" \in modes
    /\ \E src \in ButtonSources, fl \in FlagsOf("Generate Word Cloud") :
       \E ld \in {ToolkitLoad(toolkit, src, disk, environ)} :
       \E pick \in ToolkitPicks(ld) :
       \E h \in {WordCloudHandler(Prepared(ld, pick, "Generate Word Cloud", fl), fl)} :
           ToolkitCommit("Generate Word Cloud", src, fl, ld, h)
NER ==
    /\ page = "toolkit"
    /\ "Named Entity Recognition" \in modes
    /\ \E src \in ButtonSources, fl \in FlagsOf("Conduct Named Entity Recognition") :
       \E ld \in {ToolkitLoad(toolkit, src, disk, environ)} :
       \E pick \in ToolkitPicks(ld), m \in SpacyInputs :
       \E h \in {NERHandler(LoadModel(Prepared(ld, pick, "Conduct Named Entity Recognition", fl), m), fl)} :
           ToolkitCommit("Conduct Named Entity Recognition", src, fl, ld, h)
POS ==
    /\ page = "toolkit"
    /\ "POS Tagging" \in modes
    /\ \E src \in ButtonSources, fl \in FlagsOf("Start POS Tagging") :
       \E ld \in {ToolkitLoad(toolkit, src, disk, environ)} :
       \E pick \in ToolkitPicks(ld), m \in SpacyInputs :
       \E h \in {POSHandler(LoadModel(Prepared(ld, pick, "Start POS Tagging", fl), m), fl)} :
           ToolkitCommit("Start POS Tagging", src, fl, ld, h)
SummariseBasic ==
    /\ page = "toolkit"
    /\ "Summarise" \in modes
    /\ \E src \in ButtonSources, fl \in FlagsOf("Summarise Text") :
       \E ld \in {ToolkitLoad(toolkit, src, disk, environ)} :
       \E pick \in ToolkitPicks(ld), m \in SpacyInputs :
       \E h \in {SummariseBasicHandler(LoadModel(Prepared(ld, pick, "Summarise Text", fl), m), fl)} :
           ToolkitCommit("Summarise Text", src, fl, ld, h)
SummariseAdvanced ==
    /\ page = "toolkit"
    /\ "Summarise" \in modes
    /\ \E src \in ButtonSources, fl \in FlagsOf("Summarise") :
       \E ld \in {ToolkitLoad(toolkit, src, disk, environ)} :
       \E pick \in ToolkitPicks(ld) :
       \E h \in {SummariseAdvancedHandler(Prepared(ld, pick, "Summarise", fl), fl)} :
           ToolkitCommit("Summarise", src, fl, ld, h)
AnalyseSentiment ==
    /\ page = "toolkit"
    /\ "Analyse Sentiment" \in modes
    /\ \E src \in ButtonSources, fl \in FlagsOf("Start Analysis") :
       \E ld \in {ToolkitLoad(toolkit, src, disk, environ)} :
       \E pick \in ToolkitPicks(ld) :
       \E h \in {SentimentHandler(Prepared(ld, pick, "Start Analysis", fl), fl)} :
           ToolkitCommit("Start Analysis", src, fl, ld, h)
TopicModelling ==
    /\ page = "toolkit"
    /\ "Topic Modelling" \in modes
    /\ \E src \in ButtonSources, fl \in FlagsOf("Start Modelling") :
       \E ld \in {ToolkitLoad(toolkit, src, disk, environ)} :
       \E pick \in ToolkitPicks(ld) :
       \E h \in {TopicModellingHandler(Prepared(ld, pick, "Start Modelling", fl), fl)} :
           ToolkitCommit("Start Modelling", src, fl, ld, h)
TopicClassification ==
    /\ page = "toolkit"
    /\ "Topic Classification" \in modes
    /\ \E src \in ButtonSources, fl \in FlagsOf("Classify Text") :
       \E ld \in {ToolkitLoad(toolkit, src, disk, environ)} :
       \E pick \in ToolkitPicks(ld) :
       \E h \in {TopicClassificationHandler(Prepared(ld, pick, "Classify Text", fl), fl)} :
           ToolkitCommit("Classify Text", src, fl, ld, h)
RealFakeNews ==
    /\ page = "toolkit"
    /\ "Real/Fake News Detector" \in modes
    /\ \E src \in ButtonSources, fl \in FlagsOf("Proceed") :
       \E ld \in {ToolkitLoad(toolkit, src, disk, environ)} :
       \E pick \in ToolkitPicks(ld) :
       \E h \in {RealFakeHandler(Prepared(ld, pick, "Proceed", fl), fl)} :
           ToolkitCommit("Proceed", src, fl, ld, h)

\* A session stays within the operations that share a part of the toolkit
\* state: the renderings (ONE_DATAPOINT, SVG), the plots (HAC_PLOT,
\* HAC_PLOT1), or DATA and FC only.
ModeGroups ==
    {{"Word Cloud", "Named Entity Recognition", "POS Tagging"},
     {"Analyse Sentiment"},
     {"Topic Modelling"},
     {"Summarise", "Topic Classification", "Real/Fake News Detector"}}

Init ==
    /\ InitCommon
    /\ corpus = DefaultCorpus
    /\ \/ page = "dtm" /\ modes = {}
       \/ page = "toolkit" /\ modes \in ModeGroups
Next ==
    \/ ToolkitIdle \/ WordCloud \/ NER \/ POS \/ SummariseBasic \/ SummariseAdvanced
    \/ AnalyseSentiment \/ TopicModelling \/ TopicClassification \/ RealFakeNews
    \/ DTMIdle \/ DTMProceed
Spec == Init /\ [][Next]_vars

----------------------------------------------------------------------------
(* Sessions in which the forms of the providers are submitted.             *)

InitCloud ==
    /\ InitCommon
    /\ corpus = DefaultCorpus
    /\ modes = {}
    /\ page \in {"toolkit", "dtm"}
NextCloud == ToolkitFetch \/ DTMFetch
SpecCloud == InitCloud /\ [][NextCloud]_vars

\* Sessions in Large File(s) mode that go on to use the table a provider
\* delivered: the user changes the column, or presses the button of an
\* operation in a later run.
InitLarge ==
    /\ InitCommon
    /\ corpus = DefaultCorpus
    /\ modes = {"Analyse Sentiment"}
    /\ page \in {"toolkit", "dtm"}
NextLarge ==
    \/ ToolkitDownload \/ AnalyseSentiment
    \/ DTMFetch \/ DTMChoose \/ DTMProceedLarge
SpecLarge == InitLarge /\ [][NextLarge]_vars

\* Sessions that stay in Named Entity Recognition and change the spaCy
\* model, with models that are installed or not.
InitSpacy ==
    /\ InitCommon
    /\ corpus = DefaultCorpus
    /\ modes = {"Named Entity Recognition"}
    /\ page = "toolkit"
SpecSpacy == InitSpacy /\ [][NER]_vars

----------------------------------------------------------------------------
(* Two sessions that save at the same time.  Both have a dataset loaded,   *)
(* 'Save Outputs?' checked and, in Named Entity Recognition, 'Display      *)
(* Outputs?' and 'Visualise One Data Point?' checked, so the flags of the  *)
(* shared dictionary have the same values whichever session stored them.  *)
(* A step is what a thread does between two points where the interpreter  *)
(* can switch threads: the name of a file is formatted (FC is read), the  *)
(* file is written, FC is read for the increment, FC is stored.           *)

\* The files the save section of an operation writes, in order: lines
\* 206-212 (Word Cloud) and 320-332 (Named Entity Recognition).
SessionFiles(op) ==
    IF op = "Word Cloud" THEN <<"wordcloud.png">> ELSE <<"ner.csv", "rendering.html">>

\* The button of op is pressed in session s and its run reaches the save
\* section.
SessionPress(s) ==
    /\ page = "toolkit"
    /\ sessions[s].pc = "idle"
    /\ \E op \in {"Word Cloud", "Named Entity Recognition"} :
        /\ toolkit.FC + Len(SessionFiles(op)) < MaxFC
        /\ sessions' = [sessions EXCEPT ![s] = [NoSession EXCEPT !.pc = "name",
                                                                  !.todo = SessionFiles(op)]]
    /\ UNCHANGED <<page, toolkit, dtm, aws, azure, gcs, disk, environ, usedIds, dupId, call,
                   run, corpus, modes, downloads>>

\* f'wordcloud_id{toolkit["FC"]}.png': the path of the next file is formatted
\* with the value FC has now.
SessionName(s) ==
    /\ page = "toolkit"
    /\ sessions[s].pc = "name"
    /\ sessions' = [sessions EXCEPT ![s].pc = "write", ![s].id = toolkit.FC]
    /\ UNCHANGED <<page, toolkit, dtm, aws, azure, gcs, disk, environ, usedIds, dupId, call,
                   run, corpus, modes, downloads>>

\* The file of that name and id in the download directory.
FileAt(name, id) == {f \in downloads : f.name = name /\ f.id = id}

\* wc.to_file, to_csv, f.write: the file is created, or the file of that path
\* is replaced.
SessionWrite(s) ==
    /\ page = "toolkit"
    /\ sessions[s].pc = "write"
    /\ \E name \in {Head(sessions[s].todo)}, id \in {sessions[s].id} :
        /\ downloads' = (downloads \ FileAt(name, id))
                            \cup {[name |-> name, id |-> id, by |-> s]}
        /\ sessions' = [sessions EXCEPT
                            ![s].pc = "load",
                            ![s].overwrote = @ \/ \E f \in FileAt(name, id) : f.by # s]
        /\ usedIds' = usedIds \cup {id}
        /\ dupId' = (dupId \/ id \in usedIds)
    /\ UNCHANGED <<page, toolkit, dtm, aws, azure, gcs, disk, environ, call, run, corpus, modes>>

\* toolkit['FC'] += 1, first half: the value of FC is read.
SessionLoad(s) ==
    /\ page = "toolkit"
    /\ sessions[s].pc = "load"
    /\ sessions' = [sessions EXCEPT ![s].pc = "store", ![s].tmp = toolkit.FC]
    /\ UNCHANGED <<page, toolkit, dtm, aws, azure, gcs, disk, environ, usedIds, dupId, call,
                   run, corpus, modes, downloads>>

\* toolkit['FC'] += 1, second half: the value read plus one is stored; the
\* run goes on to its next file, or ends.
SessionStore(s) ==
    /\ page = "toolkit"
    /\ sessions[s].pc = "store"
    /\ toolkit' = [toolkit EXCEPT !.FC = sessions[s].tmp + 1]
    /\ sessions' = [sessions EXCEPT
                        ![s].todo = Tail(@),
                        ![s].pc = IF Len(sessions[s].todo) > 1 THEN "name" ELSE "idle"]
    /\ UNCHANGED <<page, dtm, aws, azure, gcs, disk, environ, usedIds, dupId, call, run,
                   corpus, modes, downloads>>

InitSessions ==
    /\ InitCommon
    /\ corpus = DefaultCorpus
    /\ modes = {"Word Cloud", "Named Entity Recognition"}
    /\ page = "toolkit"
NextSessions ==
    \E s \in Sessions :
        SessionPress(s) \/ SessionName(s) \/ SessionWrite(s) \/ SessionLoad(s) \/ SessionStore(s)
SpecSessions == InitSessions /\ [][NextSessions]_vars

----------------------------------------------------------------------------
(* The downloader classes on their own: a constructor call takes the       *)
(* values of its form, a download call what the provider answers.  The     *)
(* session works with the one provider it selected.                        *)

Called(op, f, r) ==
    [op |-> op, form |-> f, msgs |-> r.msgs, raised |-> r.raised, failed |-> r.failed,
     wrote |-> r.wrote]
Constructed(op, f, c) ==
    [op |-> op, form |-> f, msgs |-> c.msgs, raised |-> c.raised, failed |-> FALSE,
     wrote |-> {}]

AWSConstruct ==
    /\ page = "csp"
    /\ modes = {"Amazon"}
    /\ \E f \in AWSForms : \E c \in {AWSDownloader(f, environ)} :
        /\ aws' = c.obj
        /\ environ' = c.environ
        /\ call' = Constructed("AWSDownloader", f, c)
    /\ UNCHANGED <<page, sessions, downloads, toolkit, dtm, azure, gcs, disk, usedIds, dupId, run, corpus, modes>>

AWSDownload ==
    /\ page = "csp"
    /\ aws.kind = "aws"
    /\ \E o \in AwsOutcomes : \E r \in {downloadFile(aws, o, "t1", disk)} :
        /\ aws' = r.obj
        /\ disk' = r.disk
        /\ call' = Called("downloadFile", NoForm, r)
    /\ UNCHANGED <<page, sessions, downloads, toolkit, dtm, azure, gcs, environ, usedIds, dupId, run, corpus,
                   modes>>

AzureConstruct ==
    /\ page = "csp"
    /\ modes = {"Azure"}
    /\ \E f \in AzureForms : \E c \in {AzureDownloader(f)} :
        /\ azure' = c.obj
        /\ call' = Constructed("AzureDownloader", f, c)
    /\ UNCHANGED <<page, sessions, downloads, toolkit, dtm, aws, gcs, disk, environ, usedIds, dupId, run, corpus,
                   modes>>

AzureDownload ==
    /\ page = "csp"
    /\ azure.kind = "azure"
    /\ \E l \in BlobListings : \E k \in 0..(Len(l) + 1) :
       \E r \in {downloadBlobAzure(azure, l, k, disk)} :
        /\ azure' = r.obj
        /\ disk' = r.disk
        /\ call' = Called("downloadBlob", NoForm, r)
    /\ UNCHANGED <<page, sessions, downloads, toolkit, dtm, aws, gcs, environ, usedIds, dupId, run, corpus,
                   modes>>

GoogleConstruct ==
    /\ page = "csp"
    /\ modes = {"Google"}
    /\ \E f \in GoogleForms : \E c \in {GoogleDownloader(f, environ)} :
        /\ gcs' = c.obj
        /\ environ' = c.environ
        /\ call' = Constructed("GoogleDownloader", f, c)
    /\ UNCHANGED <<page, sessions, downloads, toolkit, dtm, aws, azure, disk, usedIds, dupId, run, corpus, modes>>

GoogleDownload ==
    /\ page = "csp"
    /\ gcs.kind = "google"
    /\ \E o \in GoogleOutcomes : \E r \in {downloadBlobGoogle(gcs, o, "t1", disk)} :
        /\ gcs' = r.obj
        /\ disk' = r.disk
        /\ call' = Called("downloadBlob", NoForm, r)
    /\ UNCHANGED <<page, sessions, downloads, toolkit, dtm, aws, azure, environ, usedIds, dupId, run, corpus,
                   modes>>

InitCSP ==
    /\ InitCommon
    /\ corpus = DefaultCorpus
    /\ page = "csp"
    /\ modes \in {{"Amazon"}, {"Azure"}, {"Google"}}
NextCSP ==
    \/ AWSConstruct \/ AWSDownload
    \/ AzureConstruct \/ AzureDownload
    \/ GoogleConstruct \/ GoogleDownload
SpecCSP == InitCSP /\ [][NextCSP]_vars

----------------------------------------------------------------------------
(* The Document-Term Matrix of every corpus within the bounds.             *)

InitCount ==
    /\ InitCommon
    /\ corpus \in Corpora
    /\ page = "dtm"
    /\ modes = {}
SpecCount == InitCount /\ [][DTMCount]_vars

----------------------------------------------------------------------------
(* The properties.                                                         *)

\* C1: every exception raised while a page run loads data or executes the
\* selected operation is caught and shown: no run of either page ends in an
\* uncaught exception.
C1_NoUncaughtException == run.outcome # "uncaught"

\* The messages that tell the user that no data is loaded.
NotLoadedErrors == {ErrNotLoaded, ErrNoFiles, ErrFileNotLoaded}

\* C2: when a button is pressed while the dataset is empty, the run shows a
\* data-not-loaded error, processes nothing, writes no file and leaves FC
\* unchanged.
C2_EmptyDataRejected ==
    (run.button # "none" /\ run.emptyAtPress)
        => /\ run.msgs \cap NotLoadedErrors # {}
           /\ ~run.processed
           /\ run.wrote = <<>>
           /\ toolkit.FC = run.fc0

\* C3: whenever an operation reads DATA[DATA_COLUMN], DATA_COLUMN names a
\* column of the current DATA.
C3_ColumnExists == run.colRead # "missing"

\* C4: every file the Document-Term Matrix page writes holds what was
\* computed from the Document-Term Matrix of the same run.
C4_SavedFilesAreFresh ==
    run.page = "dtm" => \A i \in 1..Len(run.wrote) : run.wrote[i].fresh

\* C5 as stated: a run of either page with the save checkbox unchecked
\* writes no file and leaves FC unchanged.
C5_NothingWrittenWithoutSave ==
    (run.page # "none" /\ ~run.SAVE) => (run.wrote = <<>> /\ toolkit.FC = run.fc0)

\* The run rendered one data point in POS Tagging.
POSRendered ==
    /\ run.button = "Start POS Tagging"
    /\ run.VERBOSE
    /\ run.ONE_DATAPOINT
    /\ run.processed

\* C5 as amended: a run of either page with the save checkbox unchecked
\* writes no file and leaves FC unchanged, except that POS Tagging with
\* 'Display Outputs?' and 'Visualise One Data Point?' checked writes the
\* rendering it announces and increments FC by one.
C5_OnlyRenderingWithoutSave ==
    (run.page # "none" /\ ~run.SAVE)
        => IF POSRendered
           THEN /\ Len(run.wrote) = 1
                /\ run.wrote[1].name = "rendering.html"
                /\ toolkit.FC = run.fc0 + 1
           ELSE /\ run.wrote = <<>>
                /\ toolkit.FC = run.fc0

\* An operation processed the dataset with the save checkbox unchecked and
\* wrote nothing.
C5_Witness ==
    /\ run.button # "none"
    /\ ~run.SAVE
    /\ run.processed
    /\ run.outcome = "completed"
    /\ run.wrote = <<>>

\* C6: no two files written in a session of the NLP Toolkit page are named
\* with the same FC id.
C6_UniqueIds == ~dupId

\* The form of the last constructor call holds typed keys and every field.
TypedKeysSubmitted ==
    /\ call.op = "AWSDownloader"
    /\ call.form.SUBMIT
    /\ ~call.form.FROM_CREDENTIAL_FILE
    /\ call.form.keyId # "" /\ call.form.secret # ""
    /\ call.form.bucket # "" /\ call.form.objKey # "" /\ call.form.fileName # ""

\* C7: when the keys are typed and every field is filled in, the constructor
\* of AWSDownloader sets SUCCESSFUL and the typed keys are the credentials
\* of the download.
C7_TypedKeysAccepted ==
    TypedKeysSubmitted
        => /\ aws.SUCCESSFUL
           /\ aws.AWS_ACCESS_KEY_ID = call.form.keyId
           /\ aws.AWS_SECRET_ACCESS_KEY = call.form.secret
           /\ environ.AWS_ACCESS_KEY_ID = call.form.keyId
           /\ environ.AWS_SECRET_ACCESS_KEY = call.form.secret

\* C8: after a download that succeeded in a run, the path the page passes
\* to readFile is the path of a file the downloader wrote in that run.
C8_ReadsDownloadedFile ==
    (run.readCalled /\ run.dl.wrote # {} /\ ~run.dl.failed)
        => run.readPath \in run.dl.wrote

\* C9: a run in which the download of a provider failed shows an error
\* message.
C9_FailureShown == run.dl.failed => run.msgs \cap Errors # {}

\* The documents of the selected column, and Proceed having built the
\* Document-Term Matrix from them.
SelectedDocs == ColumnText(dtm.DATA, dtm.DATA_COLUMN)
Built == run.button = "Proceed" /\ run.processed /\ run.outcome = "completed"

\* The occurrences of a word in all the documents.
RECURSIVE TotalCount(_, _)
TotalCount(w, docs) ==
    IF docs = <<>> THEN 0 ELSE Count(w, docs[1]) + TotalCount(w, Tail(docs))

\* C10 as stated: the Document-Term Matrix has one row for each document of
\* the selected column, and each row holds the word counts of its document.
C10_OneRowPerDocument ==
    Built => /\ Len(dtm.DTM) = Len(SelectedDocs)
             /\ \A i \in 1..Len(SelectedDocs) : \A w \in DOMAIN dtm.DTM[i] :
                    dtm.DTM[i][w] = Count(w, SelectedDocs[i])

\* C10 as amended: the Document-Term Matrix has exactly one row, which
\* holds for every word that is no stop word and occurs in the selected
\* column the number of its occurrences in all the documents together.
C10_OneRowOfTotals ==
    Built => /\ Len(dtm.DTM) = 1
             /\ DOMAIN dtm.DTM[1] =
                    {w \in Vocab \ StopWords : TotalCount(w, SelectedDocs) > 0}
             /\ \A w \in DOMAIN dtm.DTM[1] :
                    dtm.DTM[1][w] = TotalCount(w, SelectedDocs)

\* The matrix was built from two documents, the second with a word counted.
C10_Witness ==
    /\ Built
    /\ Len(SelectedDocs) = 2
    /\ Features(<<SelectedDocs[2]>>) # {}

\* The form of the last constructor call was submitted with every field the
\* provider requires.
RequiredFieldsGiven ==
    /\ call.form.SUBMIT
    /\ call.op = "AWSDownloader" =>
        /\ IF call.form.FROM_CREDENTIAL_FILE
           THEN call.form.credFile # None
           ELSE call.form.keyId # "" /\ call.form.secret # ""
        /\ call.form.bucket # "" /\ call.form.objKey # "" /\ call.form.fileName # ""
    /\ call.op = "AzureDownloader" =>
        call.form.conn # "" /\ call.form.blobName # "" /\ call.form.localPath # ""
    /\ call.op = "GoogleDownloader" =>
        /\ call.form.cred # None
        /\ call.form.bucket # "" /\ call.form.objName # "" /\ call.form.fileName # ""

\* C17: after a constructor of a downloader returns, SUCCESSFUL is true only
\* if the form was submitted in that run and every required field of the
\* provider was filled in.
C17_SuccessfulOnlyIfComplete ==
    /\ (call.op = "AWSDownloader" /\ aws.SUCCESSFUL) => RequiredFieldsGiven
    /\ (call.op = "AzureDownloader" /\ azure.SUCCESSFUL) => RequiredFieldsGiven
    /\ (call.op = "GoogleDownloader" /\ gcs.SUCCESSFUL) => RequiredFieldsGiven

\* C18: whenever SUCCESSFUL is true the client object the download method
\* uses has been created, so that no download fails for a missing client.
C18_ClientExists ==
    /\ (azure.kind = "azure" /\ azure.SUCCESSFUL) => azure.ClientContainer
    /\ (gcs.kind = "google" /\ gcs.SUCCESSFUL) => gcs.GoogleClient

\* The plot and rendering files of the NLP Toolkit page.
PlotFiles == {"plot.png", "normal_plot.png", "rendering.html"}

\* C12: every plot or rendering file written in a run of the NLP Toolkit
\* page was computed in that run under the options shown in it; a figure, a
\* rendering or a 'Visualise One Data Point?' choice stored by an earlier
\* run never causes a file to be written.
C12_PlotsComputedThisRun ==
    run.page = "toolkit"
        => \A i \in 1..Len(run.wrote) :
               run.wrote[i].name \in PlotFiles => run.wrote[i].fresh

\* The run read a table from the path it passed to readFile.
ReadATable == run.readCalled /\ ~readFile(run.readPath, disk).raised

\* C13: a run in which the cloud download failed does not load the file an
\* earlier download left at the destination: in Large File mode DATA comes
\* only from a file downloaded successfully in the same run.
C13_NoStaleFileAfterFailure ==
    /\ run.dl.failed => ~ReadATable
    /\ (run.mode = "large" /\ ReadATable) => run.readPath \in run.dl.wrote

\* The run was in Small File(s) mode and its uploader held no file.
NoFileUploaded == run.mode = "small" /\ run.upload = None

\* C14: on the Document-Term Matrix page in Small File(s) mode, a run whose
\* uploader holds no file holds no dataset: Proceed reports that no files
\* are loaded and does not process data uploaded earlier.
C14_NoFileNoDataset ==
    (run.page = "dtm" /\ NoFileUploaded)
        => /\ Empty(dtm.DATA)
           /\ run.button = "Proceed" => (ErrNoFiles \in run.msgs /\ ~run.processed)

\* The buttons whose handler tests 'if not DATA.empty'.
GuardedButtons == {"Generate Word Cloud", "Conduct Named Entity Recognition",
                   "Start POS Tagging", "Summarise Text", "Summarise", "Start Analysis",
                   "Start Modelling"}

\* A run of the NLP Toolkit page without an uploaded file leaves DATA empty
\* and processes no earlier dataset.
EmptyWithoutUpload ==
    (run.page = "toolkit" /\ NoFileUploaded)
        => (run.outcome = "completed" => Empty(toolkit.DATA)) /\ ~run.processed

\* C15: on the NLP Toolkit page in Small File(s) mode, a run whose uploader
\* holds no file has the empty table as DATA, and every operation guarded
\* by the emptiness test reports that the data is not loaded instead of
\* using an earlier dataset.
C15_NoFileReported ==
    /\ EmptyWithoutUpload
    /\ (run.page = "toolkit" /\ NoFileUploaded /\ run.button \in GuardedButtons)
            => (run.emptyAtPress /\ run.msgs \cap NotLoadedErrors # {})

\* C16: on the Document-Term Matrix page in Large File(s) mode, the column
\* Proceed uses is the column the user last chose in the selector for the
\* loaded dataset, also when it is not the first column and when Proceed is
\* pressed in a later run than the submission of the form.
C16_ProceedUsesChosenColumn ==
    [][(run.picked # None /\ run'.button = "Proceed" /\ run'.mode = "large"
            /\ run'.colRead = "present")
          => dtm'.DATA_COLUMN = run.picked]_vars

\* The run pressed the button of Summarise (Basic), Analyse Sentiment or
\* Topic Modelling and showed the error of a failed processing step.
ProcessingFailed ==
    /\ run.page = "toolkit"
    /\ run.button \in {"Summarise Text", "Start Analysis", "Start Modelling"}
    /\ run.msgs \cap {ErrColumn, ErrException} # {}

\* C11: a run that shows the error of a failed processing step (the column
\* standardisation of Summarise (Basic), the TextBlob scoring, the
\* vectorisation of Topic Modelling) writes no output file and does not
\* advance FC.
C11_FailedStepWritesNothing ==
    ProcessingFailed => (run.wrote = <<>> /\ toolkit.FC = run.fc0)

\* C19: in Analyse Sentiment with 'Display Outputs?' checked, a run whose
\* scoring raised and showed its error shows 'An error is made in the
\* processing of the data' and does not print or plot the missing score
\* columns.
C19_MissingScoresReported ==
    (run.button = "Start Analysis" /\ run.VERBOSE /\ ErrException \in run.msgs)
        => (ErrProcessing \in run.msgs /\ run.outcome = "completed")

\* C20: the parameters a Topic Modelling run passes to the vectoriser and
\* the model are the values of widgets shown in that run for the selected
\* model; none is left in the toolkit state by config.py or by an earlier
\* run with another model.
C20_ParametersOfThisRun ==
    (run.button = "Start Modelling" /\ ~run.emptyAtPress)
        => toolkit.MIN_DF = run.model

\* C21: whenever Named Entity Recognition, POS Tagging or Summarise (Basic)
\* processes the dataset, the pipeline it uses is the model selected by
\* 'Select spaCy model' in that run; a model loaded in an earlier run is
\* never used after loading the selected model failed.
C21_SelectedModelUsed ==
    (run.button \in {"Conduct Named Entity Recognition", "Start POS Tagging",
                     "Summarise Text"} /\ run.processed)
        => toolkit.NLP = toolkit.NLP_MODEL

\* The smaller of two numbers.
Smaller(a, b) == IF a < b THEN a ELSE b

C23_IdsUniqueAcrossSessions ==
    /\ ~dupId
    /\ \A s \in Sessions : ~sessions[s].overwrote

====
